---- MODULE Spec2Model ----
(***************************************************************************)
(* Model of pkg/sources/git/git.go: the git source of the secret scanner.  *)
(*                                                                         *)
(* Go strings are sequences of tokens (a word or a punctuation mark), so   *)
(* that prefix tests, url.Parse / URL.String and strings.Contains are      *)
(* computed, not assumed.  A nil error is the empty sequence NoErr; an     *)
(* error is the (non-empty) sequence of the words of its message.          *)
(***************************************************************************)
EXTENDS Integers, Sequences, FiniteSets, TLC

\* ------------------------------------------------------------- bounds
\* file records the commit log delivers to one ScanCommits call
MaxLog == 3
\* text fragments of one file record
MaxFrags == 2
\* lines of one text fragment
MaxLines == 2
\* entries of conn.Repositories
MaxRepos == 2
\* ScanRepo calls of other goroutines on one Git value
MaxCallers == 2
\* the concurrency a Git value is built with
MaxConcurrency == 2

\* ------------------------------------------------------------ strings
NoErr == <<>>

RECURSIVE Concat(_)
\* the concatenation of a sequence of strings
Concat(ss) == IF ss = <<>> THEN <<>> ELSE Head(ss) \o Concat(Tail(ss))

\* strings.HasPrefix
HasPrefix(s, p) == Len(s) >= Len(p) /\ SubSeq(s, 1, Len(p)) = p

\* strings.HasSuffix
HasSuffix(s, p) == Len(s) >= Len(p) /\ SubSeq(s, Len(s) - Len(p) + 1, Len(s)) = p

\* strings.Contains
Contains(s, p) ==
    \E i \in 0..(Len(s) - Len(p)) : SubSeq(s, i + 1, i + Len(p)) = p

\* strings.Index of a one-token substring: 0 when absent (Go: -1)
IndexOf(s, t) ==
    IF \E i \in 1..Len(s) : s[i] = t
    THEN CHOOSE i \in 1..Len(s) : s[i] = t /\ \A j \in 1..(i - 1) : s[j] # t
    ELSE 0

\* strings.LastIndex of a one-token substring: 0 when absent
LastIndexOf(s, t) ==
    IF \E i \in 1..Len(s) : s[i] = t
    THEN CHOOSE i \in 1..Len(s) : s[i] = t /\ \A j \in (i + 1)..Len(s) : s[j] # t
    ELSE 0

\* strings.ReplaceAll(s, old, new) for one-token old and new
ReplaceAll(s, old, new) == [i \in 1..Len(s) |-> IF s[i] = old THEN new ELSE s[i]]

\* errors.WrapPrefix(err, prefix, 0): the message becomes "prefix: message"
WrapPrefix(err, prefix) == prefix \o <<":">> \o err

\* errors.New(err) of go-errors keeps the message of the error it wraps
ErrorsNew(err) == err

\* sanitizer.UTF8: valid text is kept, an invalid byte is replaced
UTF8(s) == ReplaceAll(s, "\\xff", "?")

\* ---------------------------------------------------------------- URLs
Punct == {":", "/", "@", " "}

\* a URL as url.Parse leaves it
NilURL == [Scheme |-> <<>>, Opaque |-> <<>>, HasUser |-> FALSE, User |-> <<>>,
           Host |-> <<>>, Path |-> <<>>]

ErrMissingScheme == <<"missing", "protocol", "scheme">>
ErrFirstSegmentColon == <<"first", "path", "segment", "in", "URL", "cannot", "contain", "colon">>
ErrInvalidHost == <<"invalid", "character", "in", "host", "name">>

\* url.Parse, on URLs without query and fragment: the scheme is a leading
\* word followed by ":", a rest that does not start with "/" is opaque when
\* there is a scheme, "//" starts an authority that ends at the next "/",
\* and the user-info is the part of the authority before its last "@"
urlParse(u) ==
    LET hasScheme == Len(u) >= 2 /\ u[1] \notin Punct /\ u[2] = ":"
        scheme    == IF hasScheme THEN <<u[1]>> ELSE <<>>
        rest      == IF hasScheme THEN SubSeq(u, 3, Len(u)) ELSE u
        slash     == IndexOf(rest, "/")
        segment   == IF slash = 0 THEN rest ELSE SubSeq(rest, 1, slash - 1)
        afterAuth == SubSeq(rest, 3, Len(rest))
        authEnd   == IndexOf(afterAuth, "/")
        authority == IF authEnd = 0 THEN afterAuth ELSE SubSeq(afterAuth, 1, authEnd - 1)
        path      == IF authEnd = 0 THEN <<>> ELSE SubSeq(afterAuth, authEnd, Len(afterAuth))
        at        == LastIndexOf(authority, "@")
        host      == SubSeq(authority, at + 1, Len(authority))
    IN  IF Len(u) >= 1 /\ u[1] = ":"
        THEN [err |-> ErrMissingScheme, url |-> NilURL]
        ELSE IF ~HasPrefix(rest, <<"/">>) /\ hasScheme
        THEN [err |-> NoErr,
              url |-> [NilURL EXCEPT !.Scheme = scheme, !.Opaque = rest]]
        ELSE IF ~HasPrefix(rest, <<"/">>) /\ Contains(segment, <<":">>)
        THEN [err |-> ErrFirstSegmentColon, url |-> NilURL]
        ELSE IF HasPrefix(rest, <<"/", "/">>)
                /\ (hasScheme \/ ~HasPrefix(rest, <<"/", "/", "/">>))
        THEN IF Contains(host, <<" ">>)
             THEN [err |-> ErrInvalidHost, url |-> NilURL]
             ELSE [err |-> NoErr,
                   url |-> [NilURL EXCEPT !.Scheme = scheme,
                                          !.HasUser = (at > 0),
                                          !.User = SubSeq(authority, 1, at - 1),
                                          !.Host = host,
                                          !.Path = path]]
        ELSE [err |-> NoErr, url |-> [NilURL EXCEPT !.Scheme = scheme, !.Path = rest]]

\* URL.String: scheme ":" then the opaque part, or "//" userinfo "@" host
\* when there is a scheme, a host or a user, then the path
urlString(url) ==
    LET sch == IF url.Scheme # <<>> THEN url.Scheme \o <<":">> ELSE <<>>
        auth == IF url.Scheme # <<>> \/ url.Host # <<>> \/ url.HasUser
                THEN (IF url.Host # <<>> \/ url.Path # <<>> \/ url.HasUser
                      THEN <<"/", "/">> ELSE <<>>)
                     \o (IF url.HasUser THEN url.User \o <<"@">> ELSE <<>>)
                     \o url.Host
                ELSE <<>>
        sep  == IF url.Path # <<>> /\ url.Path[1] # "/" /\ url.Host # <<>>
                THEN <<"/">> ELSE <<>>
    IN  IF url.Opaque # <<>> THEN sch \o url.Opaque
        ELSE sch \o auth \o sep \o url.Path

\* stripPassword with the assignment repoURL.User = nil left out
stripPassword_keepUser(u) ==
    IF HasPrefix(u, <<"git", "@">>)
    THEN [url |-> u, err |-> NoErr]
    ELSE LET p == urlParse(u)
         IN  IF p.err # NoErr
             THEN [url |-> <<>>,
                   err |-> WrapPrefix(p.err, <<"repo", "remote", "cannot", "be", "sanitized", "as", "URI">>)]
             ELSE [url |-> urlString(p.url), err |-> NoErr]

\* stripPassword
stripPassword(u) ==
    IF HasPrefix(u, <<"git", "@">>)
    THEN [url |-> u, err |-> NoErr]
    ELSE LET p == urlParse(u)
         IN  IF p.err # NoErr
             THEN [url |-> <<>>,
                   err |-> WrapPrefix(p.err, <<"repo", "remote", "cannot", "be", "sanitized", "as", "URI">>)]
             ELSE [url |-> urlString([p.url EXCEPT !.HasUser = FALSE, !.User = <<>>]),
                   err |-> NoErr]

\* ------------------------------------------------- the scanned material
\* gitdiff.LineOp
OpAdd == "OpAdd"
OpDelete == "OpDelete"
OpContext == "OpContext"

\* LineOp.String(): the marker the line carries in the patch
OpString(op) == IF op = OpAdd THEN "+" ELSE IF op = OpDelete THEN "-" ELSE " "

\* gitdiff.Line values of the model: two different added lines (one without
\* a final newline), a deleted line and a context line
LineSet == {[Op |-> OpAdd, Line |-> <<"k", "\n">>], [Op |-> OpAdd, Line |-> <<"v">>],
            [Op |-> OpDelete, Line |-> <<"k", "\n">>],
            [Op |-> OpContext, Line |-> <<"k", "\n">>]}

\* Line.String(): the marker, then the text
LineString(line) == <<OpString(line.Op)>> \o line.Line

\* the non-empty sequences over S of length at most n
SeqsUpTo(S, n) == UNION {[1..k -> S] : k \in 1..n}

\* the gitdiff.TextFragment values the i-th fragment of a file can take
TextFragments(i) == {[NewPosition |-> 10 * i, Lines |-> ls] : ls \in SeqsUpTo(LineSet, MaxLines)}

\* PatchHeader of the k-th commit of the log (newest first)
SHA(k) == <<"c" \o ToString(k)>>
AuthorEmail(k) == <<"dev" \o ToString(k), "@", "corp">>
AuthorDate(k) == <<"date" \o ToString(k)>>

\* file.NewName: empty for a deleted file
NewNames == {<<>>, <<"a.txt">>, <<"x.bin">>}

\* what GitLog delivers, fragments aside: the file's commit (by its place in
\* the log), its new name and the number of its text fragments
NoFile == [commit |-> 0, SHA |-> <<>>, NewName |-> <<>>, nfrags |-> 0]
FileRecord(k, name, n) == [commit |-> k, SHA |-> SHA(k), NewName |-> name, nfrags |-> n]

\* the records that can follow when the log has shown n commits so far: one
\* more file of the last commit, or the first file of the next commit
NextFiles(n) ==
    {FileRecord(k, name, nf) : k \in {j \in {n, n + 1} : j >= 1},
                               name \in NewNames, nf \in 0..MaxFrags}

\* the log and fragments of every repository Chunks scans: a file with two
\* fragments (the second without an added line), then a deleted file
ChunksLog == <<FileRecord(1, <<"a.txt">>, 2), FileRecord(2, <<>>, 1)>>
ChunksFragments ==
    <<[NewPosition |-> 10,
       Lines |-> <<[Op |-> OpAdd, Line |-> <<"k", "\n">>],
                   [Op |-> OpContext, Line |-> <<"k", "\n">>],
                   [Op |-> OpAdd, Line |-> <<"v">>]>>],
      [NewPosition |-> 20, Lines |-> <<[Op |-> OpDelete, Line |-> <<"k", "\n">>]>>]>>

\* the remote URLs of origin: with a password, with a user only, the SSH
\* short form, and one url.Parse rejects
UrlPassword == <<"https", ":", "/", "/", "user", ":", "secret", "@", "host", "/", "repo">>
UrlUser == <<"https", ":", "/", "/", "user", "@", "host", "/", "repo">>
UrlSSH == <<"git", "@", "host", ":", "repo">>
UrlBad == <<":", "/", "/", "host", "/", "repo">>
OriginUrls == {UrlPassword, UrlUser, UrlSSH, UrlBad}

\* repo.Remote("origin"): not found, or a remote with its first URL
NoOrigin == [found |-> FALSE, url |-> <<>>]
Origins == {NoOrigin} \cup {[found |-> TRUE, url |-> u] : u \in OriginUrls}

ErrRemoteNotFound == <<"remote", "not", "found">>
ErrGitNotFound == <<"git", "command", "not", "found", "in", "PATH">>
ErrGitLog == <<"git", "log", "failed">>
ErrObjectNotFound == <<"object", "not", "found">>
ErrStatus == <<"worktree", "status", "failed">>
ErrWorktree == <<"worktree", "not", "available", "in", "a", "bare", "repository">>
ErrReferenceNotFound == <<"reference", "not", "found">>
ErrHead == <<"head", "reference", "broken">>

\* ScanOptions
DefaultFilter == {}
ScanOptionsSet ==
    [MaxDepth : 0..(MaxLog - 1),
     BaseHash : {<<>>} \cup {SHA(k) : k \in 1..(MaxLog - 1)},
     Filter : {DefaultFilter, {<<"x.bin">>}}]

\* NewScanOptions(): no depth bound, no base, a filter that passes everything
NewScanOptions == [MaxDepth |-> 0, BaseHash |-> <<>>, Filter |-> DefaultFilter]

\* Filter.Pass
FilterPass(filter, name) == name \notin filter

\* --------------------------------------------------------------- NewGit
\* runtime.NumCPU(), the concurrency Init passes to NewGit
NumCPU == 2

\* semaphore.NewWeighted(n)
NewWeighted(n) == [size |-> n, held |-> 0]

\* ---------------------------------------------------------------- state
VARIABLES
    opts,        \* the ScanOptions of the running ScanRepo call
    origin,      \* what repo.Remote("origin") yields for the scanned repository
    spc,         \* where ScanRepo is: "idle", "ScanCommits", "range", "frags",
                 \* "ScanUnstaged", "status", "done"
    depth,       \* ScanCommits: var depth
    ncommit,     \* commits the log has shown so far
    received,    \* file records fileChan has delivered so far
    file,        \* ScanCommits: the file record of the current iteration
    fi,          \* ScanCommits: index of the next fragment of file
    safeRepo,    \* the sanitized origin URL
    chunksChan,  \* the unit being handed over on chunksChan (none: <<>>): the
                 \* scan goes on when the receiver has taken it
    sentFrag,    \* the fragment the unit on chunksChan was built from
    scErr,       \* what ScanCommits returned
    suErr,       \* what ScanUnstaged returned
    headErr,     \* what repo.Head() returned to ScanUnstaged
    status,      \* ScanUnstaged: the files of the worktree status not yet visited
    srErr,       \* what ScanRepo returned
    last,        \* the place in the scan of the unit sent last by this ScanRepo call
    wt,          \* ScanUnstaged: the files the status reported, those visited with
                 \* whether they could be read, and the units sent for them
    conn,        \* Source.conn: the credential, Repositories and Directories
    cpc,         \* where Chunks is: "none" (no call), "Chunks", "repos",
                 \* "scanRepo", "dirs", "scanDir", "returned"
    ci,          \* Chunks: the index of the running loop
    defers,      \* Chunks: the paths of the deferred os.RemoveAll calls
    disk,        \* the directories under the temporary-directory root
    created,     \* the directories CloneRepo created during this Chunks call
    acquired,    \* the entries of conn whose clone or open has been attempted
    failures,    \* the entries whose clone, open or scan returned an error
    cErr,        \* what Chunks returned
    ctx,         \* the context passed to Chunks: whether it is canceled, and the
                 \* entries of conn acquired when it was
    cloned,      \* the last CloneRepo call: what cloneCmd.Run() returned and
                 \* what CloneRepo returned
    tpc,         \* where TryAdditionalBaseRefs is: "none" (no call), "loop",
                 \* "returned"
    refs,        \* what the repository resolves each revision to
    base,        \* TryAdditionalBaseRefs: base
    ti,          \* TryAdditionalBaseRefs: the index of the loop over the prefixes
    tOut,        \* what TryAdditionalBaseRefs returned
    sem,         \* Git.sem: its size and the weight acquired
    scans        \* the ScanRepo calls of other goroutines running on the Git value

scanVars == <<opts, origin, spc, depth, ncommit, received, file, fi, safeRepo, chunksChan,
              sentFrag, scErr, suErr, headErr, status, srErr, last, wt>>

chunksVars == <<conn, cpc, ci, defers, disk, created, acquired, failures, cErr, cloned, ctx>>

resolveVars == <<tpc, refs, base, ti, tOut>>

gateVars == <<sem, scans>>

vars == <<scanVars, chunksVars, resolveVars, gateVars>>

\* ScanRepo was called directly (any repository), not by Chunks
Direct == cpc = "none"

\* the records fileChan can deliver next, and whether it can be closed
Deliverable ==
    IF Direct THEN NextFiles(ncommit)
    ELSE {ChunksLog[i] : i \in {received + 1} \cap 1..Len(ChunksLog)}
Closable == Direct \/ received >= Len(ChunksLog)

\* the values file.TextFragments[i] can have
FragmentValues(i) == IF Direct THEN TextFragments(i) ELSE {ChunksFragments[i]}

\* no send in this step
NoSend == UNCHANGED <<chunksChan, sentFrag>>

\* a call that has not returned yet
Pending == <<"pending">>

\* the place of a unit in the scan: the history walk or the working tree,
\* and for the walk the commit, the file record and the fragment it is from
NoUnit == [kind |-> "none", commit |-> 0, rec |-> 0, frag |-> 0]
HistoryPlace(f, r, i) == [kind |-> "history", commit |-> f.commit, rec |-> r, frag |-> i]
UnstagedPlace == [kind |-> "unstaged", commit |-> 0, rec |-> 0, frag |-> 0]

\* no worktree status read yet
NoWorktree == [reported |-> {}, reads |-> {}, units |-> <<>>]

\* the state in which ScanRepo(repo, o) is entered, repo having origin org
EnterScanRepo(o, org) ==
    /\ opts' = o
    /\ origin' = org
    /\ spc' = "ScanCommits"
    /\ depth' = 0
    /\ ncommit' = 0
    /\ received' = 0
    /\ file' = NoFile
    /\ fi' = 0
    /\ safeRepo' = <<>>
    /\ scErr' = Pending
    /\ suErr' = Pending
    /\ headErr' = Pending
    /\ status' = {}
    /\ srErr' = Pending
    /\ last' = NoUnit
    /\ wt' = NoWorktree

\* ---------------------------------------------------------- ScanCommits
\* the depth test with > for >=
DepthReached_offByOne(o, d) == o.MaxDepth > 0 /\ d > o.MaxDepth

\* scanOptions.MaxDepth > 0 && depth >= scanOptions.MaxDepth
DepthReached(o, d) == o.MaxDepth > 0 /\ d >= o.MaxDepth

\* the base test comparing nothing
BaseReached_never(o, f) == FALSE

\* len(scanOptions.BaseHash) > 0 && file.PatchHeader.SHA == scanOptions.BaseHash
BaseReached(o, f) == Len(o.BaseHash) > 0 /\ f.SHA = o.BaseHash

RECURSIVE NewLines_allOps(_)
\* the inner loop without the test of line.Op
NewLines_allOps(lines) ==
    IF lines = <<>> THEN <<>>
    ELSE ReplaceAll(LineString(Head(lines)), "\n", " ") \o <<"\n">>
         \o NewLines_allOps(Tail(lines))

RECURSIVE NewLines(_)
\* the inner loop over frag.Lines: what newLines holds after it
NewLines(lines) ==
    IF lines = <<>> THEN <<>>
    ELSE (IF Head(lines).Op = OpAdd
          THEN ReplaceAll(LineString(Head(lines)), "\n", " ") \o <<"\n">>
          ELSE <<>>)
         \o NewLines(Tail(lines))

\* the closure Init gives NewGit as sourceMetadataFunc, with the names of its
\* own parameters: the callers pass (file, email, commit, timestamp,
\* repository, line), so its fourth parameter receives the timestamp
sourceMetadataFunc(fname, email, commit, repository, timestamp, line) ==
    [Commit |-> UTF8(commit), File |-> UTF8(fname), Email |-> UTF8(email),
     Repository |-> UTF8(repository), Timestamp |-> UTF8(timestamp), Line |-> line]

\* the sources.Chunk ScanCommits builds from one fragment
CommitChunk(f, repoURL, frag) ==
    [Data |-> NewLines(frag.Lines),
     SourceMetadata |-> sourceMetadataFunc(f.NewName, AuthorEmail(f.commit), f.SHA,
                                           AuthorDate(f.commit), repoURL, frag.NewPosition)]

\* ScanRepo going on to ScanUnstaged whatever ScanCommits returned
ReturnFromScanCommits_goOn(err) ==
    /\ scErr' = err
    /\ spc' = "ScanUnstaged"
    /\ srErr' = srErr

\* ScanCommits returns err to ScanRepo, which returns it when it is not nil
\* and goes on to ScanUnstaged otherwise
ReturnFromScanCommits(err) ==
    /\ scErr' = err
    /\ IF err # NoErr
       THEN spc' = "done" /\ srErr' = err
       ELSE spc' = "ScanUnstaged" /\ srErr' = srErr

\* ScanCommits up to the loop: GitCmdCheck, then GitLog
ScanCommitsStart ==
    /\ spc = "ScanCommits"
    /\ chunksChan = <<>>
    /\ UNCHANGED chunksVars
    /\ \E gitFound \in BOOLEAN, logErr \in {NoErr, ErrGitLog} :
          IF ~gitFound
          THEN /\ ReturnFromScanCommits(ErrGitNotFound)
               /\ depth' = depth
          ELSE IF logErr # NoErr
          THEN /\ ReturnFromScanCommits(WrapPrefix(logErr, <<"could", "not", "open", "repo", "path">>))
               /\ depth' = depth
          ELSE /\ spc' = "range"
               /\ depth' = 0
               /\ UNCHANGED <<scErr, srErr>>
    /\ NoSend
    /\ UNCHANGED <<opts, origin, ncommit, received, file, fi, safeRepo, suErr, headErr, status>>
    /\ UNCHANGED last
    /\ UNCHANGED resolveVars
    /\ UNCHANGED gateVars
    /\ UNCHANGED wt

\* the loop ends because fileChan is closed
LogClosed ==
    /\ spc = "range"
    /\ chunksChan = <<>>
    /\ UNCHANGED chunksVars
    /\ Closable
    /\ ReturnFromScanCommits(NoErr)
    /\ NoSend
    /\ UNCHANGED <<opts, origin, depth, ncommit, received, file, fi, safeRepo, suErr, headErr, status>>
    /\ UNCHANGED last
    /\ UNCHANGED resolveVars
    /\ UNCHANGED gateVars
    /\ UNCHANGED wt

\* one iteration of the loop over fileChan, up to its fragments
RecvFile ==
    /\ spc = "range"
    /\ chunksChan = <<>>
    /\ UNCHANGED chunksVars
    /\ received < MaxLog
    /\ \E f \in Deliverable :
          /\ ncommit' = f.commit
          /\ received' = received + 1
          /\ IF DepthReached(opts, depth)
             THEN /\ ReturnFromScanCommits(NoErr)
                  /\ UNCHANGED <<depth, file, fi, safeRepo>>
             ELSE /\ depth' = depth + 1
                  /\ IF BaseReached(opts, f)
                     THEN /\ ReturnFromScanCommits(NoErr)
                          /\ UNCHANGED <<file, fi, safeRepo>>
                     ELSE IF ~FilterPass(opts.Filter, f.NewName) \/ f.NewName = <<>>
                     THEN UNCHANGED <<spc, scErr, srErr, file, fi, safeRepo>>
                     ELSE IF ~origin.found
                     THEN /\ ReturnFromScanCommits(
                                WrapPrefix(ErrRemoteNotFound,
                                           <<"error", "getting", "repo", "remote", "origin">>))
                          /\ UNCHANGED <<file, fi, safeRepo>>
                     ELSE IF stripPassword(origin.url).err # NoErr
                     THEN /\ ReturnFromScanCommits(
                                WrapPrefix(stripPassword(origin.url).err,
                                           <<"couldn't", "get", "repo", "name">>))
                          /\ UNCHANGED <<file, fi, safeRepo>>
                     ELSE /\ IF f.nfrags = 0
                             THEN UNCHANGED <<spc, file, fi, safeRepo>>
                             ELSE /\ spc' = "frags"
                                  /\ file' = f
                                  /\ fi' = 1
                                  /\ safeRepo' = stripPassword(origin.url).url
                          /\ UNCHANGED <<scErr, srErr>>
    /\ NoSend
    /\ UNCHANGED <<opts, origin, suErr, headErr, status>>
    /\ UNCHANGED last
    /\ UNCHANGED resolveVars
    /\ UNCHANGED gateVars
    /\ UNCHANGED wt

\* one iteration of the loop over file.TextFragments: the fragment is read,
\* its unit is built and sent
SendFragment ==
    /\ spc = "frags"
    /\ chunksChan = <<>>
    /\ UNCHANGED chunksVars
    /\ \E frag \in FragmentValues(fi) :
          /\ chunksChan' = <<CommitChunk(file, safeRepo, frag)>>
          /\ sentFrag' = <<frag>>
          /\ last' = HistoryPlace(file, received, fi)
    /\ IF fi = file.nfrags
       THEN spc' = "range" /\ file' = NoFile /\ fi' = 0 /\ safeRepo' = <<>>
       ELSE spc' = "frags" /\ file' = file /\ fi' = fi + 1 /\ safeRepo' = safeRepo
    /\ UNCHANGED <<opts, origin, depth, ncommit, received, scErr, suErr, headErr, status, srErr>>
    /\ UNCHANGED resolveVars
    /\ UNCHANGED gateVars
    /\ UNCHANGED wt

\* --------------------------------------------------------- ScanUnstaged
\* the files a worktree status reports, and what reading one can yield
StatusNames == {<<"a.txt">>, <<"x.bin">>}
\* the worktree status of every repository Chunks scans, and the statuses
\* wt.Status() can report
ChunksStatus == {<<"a.txt">>}
StatusValues == IF Direct THEN SUBSET StatusNames ELSE {ChunksStatus}
FileContent(fh) == IF fh = <<"a.txt">> THEN <<"k", "\n", "v", "\n">> ELSE <<"b">>
Unstaged == <<"unstaged">>
TimeNow == <<"now">>

\* what repo.Head() can return
HeadErrors == {NoErr, ErrReferenceNotFound, ErrHead}

\* the head test accepting only the two cases and failing on the others
HeadAllowsScan(err) == err = NoErr \/ err = ErrReferenceNotFound

\* ScanRepo's handling of an error of ScanUnstaged, the known issue tolerated
ScanRepoUnstagedResult_tolerant(err) ==
    IF err = NoErr THEN NoErr
    ELSE IF Contains(err, <<"object", "not", "found">>) THEN NoErr
    ELSE ErrorsNew(err)

\* ScanRepo dropping the error of ScanUnstaged
ScanRepoUnstagedResult_ignored(err) == NoErr

\* ScanRepo after ScanUnstaged returned err: nil when err is nil; a message
\* with "object not found" is logged and err returned; else errors.New(err)
ScanRepoUnstagedResult(err) ==
    IF err = NoErr THEN NoErr
    ELSE IF Contains(err, <<"object", "not", "found">>) THEN err
    ELSE ErrorsNew(err)

\* ScanUnstaged returns err to ScanRepo, which returns
ReturnFromScanUnstaged(err) ==
    /\ suErr' = err
    /\ srErr' = ScanRepoUnstagedResult(err)
    /\ spc' = "done"

\* ScanUnstaged up to the loop over the status
ScanUnstagedStart ==
    /\ spc = "ScanUnstaged"
    /\ chunksChan = <<>>
    /\ UNCHANGED chunksVars
    /\ IF ~origin.found
       THEN /\ ReturnFromScanUnstaged(ErrorsNew(ErrRemoteNotFound))
            /\ UNCHANGED <<safeRepo, headErr, status>>
       ELSE IF stripPassword(origin.url).err # NoErr
       THEN /\ ReturnFromScanUnstaged(ErrorsNew(stripPassword(origin.url).err))
            /\ UNCHANGED <<safeRepo, headErr, status>>
       ELSE /\ safeRepo' = stripPassword(origin.url).url
            /\ \E head \in HeadErrors :
                  /\ headErr' = head
                  /\ IF ~HeadAllowsScan(head)
                     THEN /\ ReturnFromScanUnstaged(NoErr)
                          /\ status' = status
                     ELSE \E wtErr \in {NoErr, ErrWorktree},
                             stErr \in {NoErr, ErrStatus, ErrObjectNotFound},
                             st \in StatusValues :
                             IF wtErr # NoErr
                             THEN ReturnFromScanUnstaged(wtErr) /\ status' = status
                             ELSE IF stErr # NoErr
                             THEN ReturnFromScanUnstaged(stErr) /\ status' = status
                             ELSE /\ status' = st
                                  /\ spc' = "status"
                                  /\ UNCHANGED <<suErr, srErr>>
    /\ wt' = IF spc' = "status" THEN [wt EXCEPT !.reported = status'] ELSE wt
    /\ NoSend
    /\ UNCHANGED <<opts, origin, depth, ncommit, received, file, fi, scErr>>
    /\ UNCHANGED last
    /\ UNCHANGED resolveVars
    /\ UNCHANGED gateVars

\* the file is sent although copying it failed
Readable_openOnly(openOK, copyOK) == openOK

\* wt.Filesystem.Open and io.Copy both returned a nil error
Readable(openOK, copyOK) == openOK /\ copyOK

\* the sources.Chunk ScanUnstaged builds from one file
UnstagedChunk(fh, repoURL, content) ==
    [Data |-> content,
     SourceMetadata |-> sourceMetadataFunc(fh, Unstaged, Unstaged, TimeNow, repoURL, 0)]

\* one iteration of the loop over the status (a map: any order)
ScanUnstagedFile ==
    /\ spc = "status"
    /\ chunksChan = <<>>
    /\ UNCHANGED chunksVars
    /\ \E fh \in status :
          /\ status' = status \ {fh}
          /\ \E openOK \in BOOLEAN, copyOK \in BOOLEAN :
                LET chunk == UnstagedChunk(fh, safeRepo, FileContent(fh))
                    read  == [name |-> fh, readable |-> openOK /\ copyOK]
                IN  IF ~FilterPass(opts.Filter, fh) \/ ~Readable(openOK, copyOK)
                    THEN /\ NoSend
                         /\ last' = last
                         /\ wt' = [wt EXCEPT !.reads = @ \cup {read}]
                    ELSE /\ chunksChan' = <<chunk>>
                         /\ sentFrag' = <<>>
                         /\ last' = UnstagedPlace
                         /\ wt' = [wt EXCEPT !.reads = @ \cup {read},
                                             !.units = Append(@, [File |-> chunk.SourceMetadata.File,
                                                                  Data |-> chunk.Data])]
    /\ UNCHANGED <<opts, origin, spc, depth, ncommit, received, file, fi, safeRepo, scErr,
                   suErr, headErr, srErr>>
    /\ UNCHANGED resolveVars
    /\ UNCHANGED gateVars

\* the loop over the status is over
ScanUnstagedReturn ==
    /\ spc = "status"
    /\ chunksChan = <<>>
    /\ UNCHANGED chunksVars
    /\ status = {}
    /\ ReturnFromScanUnstaged(NoErr)
    /\ NoSend
    /\ UNCHANGED <<opts, origin, depth, ncommit, received, file, fi, safeRepo, scErr, headErr, status>>
    /\ UNCHANGED last
    /\ UNCHANGED resolveVars
    /\ UNCHANGED gateVars
    /\ UNCHANGED wt

\* the consumer of chunksChan takes the unit
Receive ==
    /\ chunksChan # <<>>
    /\ chunksChan' = <<>>
    /\ sentFrag' = <<>>
    /\ UNCHANGED <<opts, origin, spc, depth, ncommit, received, file, fi, safeRepo, scErr,
                   suErr, headErr, status, srErr>>
    /\ UNCHANGED chunksVars
    /\ UNCHANGED last
    /\ UNCHANGED resolveVars
    /\ UNCHANGED gateVars
    /\ UNCHANGED wt


\* ---------------------------------------------------------------- Chunks
\* conn.Credential
BasicAuth == [kind |-> "BasicAuth", Username |-> <<"user">>, Password |-> <<"secret">>]
Unauthenticated == [kind |-> "Unauthenticated", Username |-> <<>>, Password |-> <<>>]
NoCredential == [kind |-> "none", Username |-> <<>>, Password |-> <<>>]
Credentials == {BasicAuth, Unauthenticated, NoCredential}

\* the entries of conn.Repositories: empty, a URL, one url.Parse rejects
UrlPlain == <<"https", ":", "/", "/", "host", "/", "repo">>
RepoURIs == {<<>>, UrlPlain, UrlBad}

\* the entries of conn.Directories: empty, a local repository, a path that
\* ends in "git", a directory under the temporary-directory root
TempPrefix == <<"/", "tmp", "/", "trufflehog">>
DirLocal == <<"/", "srv", "/", "repo">>
DirDotGit == <<"/", "srv", "/", "repo", ".", "git">>
DirTemp == TempPrefix \o <<"prepared">>
DirPaths == {<<>>, DirLocal, DirDotGit, DirTemp}

NoConn == [Credential |-> NoCredential, Repositories |-> <<>>, Directories |-> <<>>]
Conns ==
    [Credential : Credentials,
     Repositories : {<<>>} \cup SeqsUpTo(RepoURIs, MaxRepos),
     Directories : {<<>>} \cup {<<d>> : d \in DirPaths}]

ErrInvalidConnection == <<"invalid", "connection", "type", "for", "git", "source">>
ErrTempDir == <<"cannot", "create", "temporary", "directory">>
ErrRepositoryNotExists == <<"repository", "does", "not", "exist">>
ErrExitStatus == <<"exit", "status", "128">>

\* ioutil.TempDir(os.TempDir(), "trufflehog"): a name not used before
TempDirName(n) == TempPrefix \o <<ToString(n)>>

\* CleanOnError
CleanOnError(err, path, d) == IF err # NoErr THEN d \ {path} ELSE d

\* url.UserPassword(user, token) set as cloneURL.User; nil for no user-info
WithUser(url, userInfo) ==
    [url EXCEPT !.HasUser = (userInfo # <<>>), !.User = userInfo]

\* no CloneRepo call yet
NoClone == [cloneErr |-> <<"pending">>, err |-> <<"pending">>]

\* CloneRepo(userInfo, gitUrl) on disk d, n directories having been created
\* by earlier calls; env tells what the git command, TempDir, 'git clone' and
\* PlainOpen do.  Yields the path and error returned, the disk left behind,
\* the origin of the clone and what cloneCmd.Run() returned (pending: not
\* run).  The error of cloneCmd.Run() is assigned to the err of the if
\* statement only, so it is not part of the error returned.
CloneRepo(userInfo, gitUrl, env, d, n) ==
    LET clonePath == TempDirName(n + 1)
        made      == d \cup {clonePath}
        parsed    == urlParse(gitUrl)
        parseErr  == WrapPrefix(parsed.err, <<"could", "not", "parse", "url">>)
        cloneURL  == WithUser(parsed.url, userInfo)
        openErr   == WrapPrefix(ErrRepositoryNotExists, <<"could", "not", "open", "repo">>)
        runErr    == IF env.cloneOK THEN NoErr ELSE ErrExitStatus
        result(path, e, dd, org, ce) ==
            [clonePath |-> path, err |-> e, disk |-> dd, origin |-> org, cloneErr |-> ce]
    IN  IF ~env.gitFound THEN result(<<>>, ErrGitNotFound, d, NoOrigin, NoClone.cloneErr)
        ELSE IF ~env.tempDirOK
        THEN result(<<>>, ErrorsNew(ErrTempDir), d, NoOrigin, NoClone.cloneErr)
        ELSE IF parsed.err # NoErr
        THEN result(clonePath, parseErr, CleanOnError(parseErr, clonePath, made), NoOrigin,
                    NoClone.cloneErr)
        ELSE IF ~env.openOK
        THEN result(clonePath, openErr, CleanOnError(openErr, clonePath, made), NoOrigin,
                    runErr)
        ELSE result(clonePath, NoErr, CleanOnError(NoErr, clonePath, made),
                    [found |-> TRUE, url |-> urlString(cloneURL)], runErr)

CloneEnvs == [gitFound : BOOLEAN, tempDirOK : BOOLEAN, cloneOK : BOOLEAN, openOK : BOOLEAN]

\* CloneRepoUsingToken / CloneRepoUsingUnauthenticated, by the credential
UserInfoOfCredential(cred) ==
    IF cred.kind = "BasicAuth" THEN cred.Username \o <<":">> \o cred.Password ELSE <<>>

\* the deferred calls run when Chunks returns: only the last one
RunDeferred_lastOnly(d, defs) == IF defs = <<>> THEN d ELSE d \ {defs[Len(defs)]}

\* the deferred os.RemoveAll calls run when Chunks returns
RunDeferred(d, defs) == d \ {defs[i] : i \in 1..Len(defs)}

\* the test of ScanRepo's error that never sees one
ScanFailed_never(err) == FALSE

\* err = s.git.ScanRepo(...); if err != nil
ScanFailed(err) == err # NoErr

\* Chunks returns err: the deferred calls run
ChunksReturn(err, d, defs) ==
    /\ cErr' = err
    /\ cpc' = "returned"
    /\ disk' = RunDeferred(d, defs)
    /\ defers' = <<>>

\* context.Background(), not canceled
Background == [canceled |-> FALSE, started |-> {}]

\* the caller cancels the context of the running Chunks call
Cancel ==
    /\ cpc \notin {"none", "returned"}
    /\ ~ctx.canceled
    /\ ctx' = [canceled |-> TRUE, started |-> acquired]
    /\ UNCHANGED <<conn, cpc, ci, defers, disk, created, acquired, failures, cErr, cloned>>
    /\ UNCHANGED scanVars
    /\ UNCHANGED resolveVars
    /\ UNCHANGED gateVars

\* the switch on the credential
ChunksEnter ==
    /\ cpc = "Chunks"
    /\ IF conn.Credential.kind \notin {"BasicAuth", "Unauthenticated"}
       THEN /\ ChunksReturn(ErrorsNew(ErrInvalidConnection), disk, defers)
            /\ ci' = ci
       ELSE /\ cpc' = "repos"
            /\ ci' = 1
            /\ UNCHANGED <<cErr, disk, defers>>
    /\ UNCHANGED <<conn, created, acquired, failures>>
    /\ UNCHANGED scanVars
    /\ UNCHANGED cloned
    /\ UNCHANGED resolveVars
    /\ UNCHANGED ctx
    /\ UNCHANGED gateVars

\* one iteration of the loop over conn.Repositories, up to ScanRepo
ChunksRepo ==
    /\ cpc = "repos"
    /\ IF ci > Len(conn.Repositories)
       THEN /\ cpc' = "dirs"
            /\ ci' = 1
            /\ UNCHANGED <<cErr, disk, defers, created, acquired, failures, cloned>>
            /\ UNCHANGED scanVars
       ELSE IF Len(conn.Repositories[ci]) = 0
       THEN /\ ci' = ci + 1
            /\ UNCHANGED <<cpc, cErr, disk, defers, created, acquired, failures, cloned>>
            /\ UNCHANGED scanVars
       ELSE \E env \in CloneEnvs :
               LET r == CloneRepo(UserInfoOfCredential(conn.Credential),
                                  conn.Repositories[ci], env, disk, Cardinality(created))
               IN  /\ created' = created \cup ({r.clonePath} \ {<<>>})
                   /\ cloned' = [cloneErr |-> r.cloneErr, err |-> r.err]
                   /\ acquired' = acquired \cup {<<"repo", ci>>}
                   /\ IF r.err # NoErr
                      THEN /\ ChunksReturn(r.err, r.disk, Append(defers, r.clonePath))
                           /\ failures' = failures \cup {<<"repo", ci>>}
                           /\ ci' = ci
                           /\ UNCHANGED scanVars
                      ELSE /\ disk' = r.disk
                           /\ defers' = Append(defers, r.clonePath)
                           /\ cpc' = "scanRepo"
                           /\ EnterScanRepo(NewScanOptions, r.origin)
                           /\ NoSend
                           /\ UNCHANGED <<ci, cErr, failures>>
    /\ conn' = conn
    /\ UNCHANGED resolveVars
    /\ UNCHANGED ctx
    /\ UNCHANGED gateVars

\* the loop over conn.Repositories after ScanRepo returned
ChunksRepoScanned ==
    /\ cpc = "scanRepo"
    /\ spc = "done"
    /\ IF ScanFailed(srErr)
       THEN /\ ChunksReturn(srErr, disk, defers)
            /\ failures' = failures \cup {<<"repo", ci>>}
            /\ ci' = ci
       ELSE /\ cpc' = "repos"
            /\ ci' = ci + 1
            /\ failures' = failures \cup (IF srErr # NoErr THEN {<<"repo", ci>>} ELSE {})
            /\ UNCHANGED <<cErr, disk, defers>>
    /\ spc' = "idle"
    /\ UNCHANGED <<conn, created, acquired>>
    /\ UNCHANGED <<opts, origin, depth, ncommit, received, file, fi, safeRepo, chunksChan,
                   sentFrag, scErr, suErr, headErr, status, srErr>>
    /\ UNCHANGED last
    /\ UNCHANGED cloned
    /\ UNCHANGED resolveVars
    /\ UNCHANGED ctx
    /\ UNCHANGED gateVars
    /\ UNCHANGED wt

\* one iteration of the loop over conn.Directories, up to ScanRepo
ChunksDir ==
    /\ cpc = "dirs"
    /\ IF ci > Len(conn.Directories)
       THEN /\ ChunksReturn(NoErr, disk, defers)
            /\ UNCHANGED <<ci, acquired, failures>>
            /\ UNCHANGED scanVars
       ELSE LET u == conn.Directories[ci]
            IN  IF Len(u) = 0 \/ HasSuffix(u, <<"git">>)
                THEN /\ ci' = ci + 1
                     /\ UNCHANGED <<cpc, cErr, disk, defers, acquired, failures>>
                     /\ UNCHANGED scanVars
                ELSE \E openErr \in {NoErr, ErrRepositoryNotExists}, org \in Origins :
                        /\ acquired' = acquired \cup {<<"dir", ci>>}
                        /\ IF openErr # NoErr
                           THEN /\ ChunksReturn(openErr, disk, defers)
                                /\ failures' = failures \cup {<<"dir", ci>>}
                                /\ ci' = ci
                                /\ UNCHANGED scanVars
                           ELSE /\ defers' = IF HasPrefix(u, TempPrefix)
                                             THEN Append(defers, u) ELSE defers
                                /\ cpc' = "scanDir"
                                /\ EnterScanRepo(NewScanOptions, org)
                                /\ NoSend
                                /\ UNCHANGED <<ci, cErr, disk, failures>>
    /\ UNCHANGED <<conn, created>>
    /\ UNCHANGED cloned
    /\ UNCHANGED resolveVars
    /\ UNCHANGED ctx
    /\ UNCHANGED gateVars

\* the loop over conn.Directories after ScanRepo returned
ChunksDirScanned ==
    /\ cpc = "scanDir"
    /\ spc = "done"
    /\ IF ScanFailed(srErr)
       THEN /\ ChunksReturn(srErr, disk, defers)
            /\ failures' = failures \cup {<<"dir", ci>>}
            /\ ci' = ci
       ELSE /\ cpc' = "dirs"
            /\ ci' = ci + 1
            /\ failures' = failures \cup (IF srErr # NoErr THEN {<<"dir", ci>>} ELSE {})
            /\ UNCHANGED <<cErr, disk, defers>>
    /\ spc' = "idle"
    /\ UNCHANGED <<conn, created, acquired>>
    /\ UNCHANGED <<opts, origin, depth, ncommit, received, file, fi, safeRepo, chunksChan,
                   sentFrag, scErr, suErr, headErr, status, srErr>>
    /\ UNCHANGED last
    /\ UNCHANGED cloned
    /\ UNCHANGED resolveVars
    /\ UNCHANGED ctx
    /\ UNCHANGED gateVars
    /\ UNCHANGED wt

\* ------------------------------------------------ TryAdditionalBaseRefs
revisionPrefixes ==
    <<<<>>, <<"refs", "/", "heads", "/">>, <<"refs", "/", "remotes", "/", "origin", "/">>>>

\* the values of base, and the revisions tried for one
Bases == {<<"main">>, <<"v1">>}
Revisions(b) == {revisionPrefixes[i] \o b : i \in 1..Len(revisionPrefixes)}

\* a repository resolves a revision to a hash, or reports that the reference
\* is not found, or fails otherwise
Resolutions == {"hash", "notfound", "error"}
NilHash == <<>>
HashOf(rev) == <<"hash", "of">> \o rev
ErrResolve == <<"unexpected", "object", "type">>
ErrNoBaseRefs(b) == <<"no", "base", "refs", "succeeded", "for", "base", ":">> \o b

\* repo.ResolveRevision(rev) in a repository r
ResolveRevision(r, rev) ==
    IF r[rev] = "hash" THEN [hash |-> HashOf(rev), err |-> NoErr]
    ELSE IF r[rev] = "notfound" THEN [hash |-> NilHash, err |-> ErrReferenceNotFound]
    ELSE [hash |-> NilHash, err |-> ErrResolve]

\* the test that goes on to the next prefix after any error
RefNotFound_anyError(err) == err # NoErr

\* err == plumbing.ErrReferenceNotFound
RefNotFound(err) == err = ErrReferenceNotFound

\* no call of TryAdditionalBaseRefs
NoRefs == <<>>
NoResult == [hash |-> NilHash, err |-> Pending]
ResolveIdle ==
    /\ tpc = "none"
    /\ refs = NoRefs
    /\ base = <<>>
    /\ ti = 0
    /\ tOut = NoResult

\* one iteration of the loop over revisionPrefixes, or the return after it
TryRevision ==
    /\ tpc = "loop"
    /\ IF ti > Len(revisionPrefixes)
       THEN /\ tOut' = [hash |-> NilHash, err |-> ErrNoBaseRefs(base)]
            /\ tpc' = "returned"
            /\ ti' = ti
       ELSE LET r == ResolveRevision(refs, revisionPrefixes[ti] \o base)
            IN  IF RefNotFound(r.err)
                THEN /\ ti' = ti + 1
                     /\ UNCHANGED <<tOut, tpc>>
                ELSE IF r.err # NoErr
                THEN /\ tOut' = [hash |-> NilHash, err |-> r.err]
                     /\ tpc' = "returned"
                     /\ ti' = ti
                ELSE /\ tOut' = [hash |-> r.hash, err |-> NoErr]
                     /\ tpc' = "returned"
                     /\ ti' = ti
    /\ UNCHANGED <<refs, base>>
    /\ UNCHANGED scanVars
    /\ UNCHANGED chunksVars
    /\ UNCHANGED gateVars

\* no scan is running
ScanIdle ==
    /\ opts = NewScanOptions
    /\ origin = NoOrigin
    /\ spc = "idle"
    /\ depth = 0
    /\ ncommit = 0
    /\ received = 0
    /\ file = NoFile
    /\ fi = 0
    /\ safeRepo = <<>>
    /\ chunksChan = <<>>
    /\ sentFrag = <<>>
    /\ scErr = Pending
    /\ suErr = Pending
    /\ headErr = Pending
    /\ status = {}
    /\ srErr = Pending
    /\ last = NoUnit
    /\ wt = NoWorktree

\* the Git value Init builds, no other goroutine using it
GitOfInit ==
    /\ sem = NewWeighted(NumCPU)
    /\ scans = 0

\* a call of Chunks on a Source whose Init stored conn
InitChunks ==
    /\ ScanIdle
    /\ GitOfInit
    /\ conn \in Conns
    /\ cpc = "Chunks"
    /\ ci = 0
    /\ defers = <<>>
    /\ disk = {d \in {conn.Directories[i] : i \in 1..Len(conn.Directories)} :
                  HasPrefix(d, TempPrefix)}
    /\ created = {}
    /\ acquired = {}
    /\ failures = {}
    /\ cErr = Pending
    /\ cloned = NoClone
    /\ ctx = Background
    /\ ResolveIdle

\* a direct call of ScanRepo, with any options, on a repository with any origin
DirectCall ==
    /\ opts \in ScanOptionsSet
    /\ origin \in Origins
    /\ spc = "ScanCommits"
    /\ depth = 0
    /\ ncommit = 0
    /\ received = 0
    /\ file = NoFile
    /\ fi = 0
    /\ safeRepo = <<>>
    /\ chunksChan = <<>>
    /\ sentFrag = <<>>
    /\ scErr = Pending
    /\ suErr = Pending
    /\ headErr = Pending
    /\ status = {}
    /\ srErr = Pending
    /\ last = NoUnit
    /\ wt = NoWorktree
    /\ conn = NoConn
    /\ cpc = "none"
    /\ ci = 0
    /\ defers = <<>>
    /\ disk = {}
    /\ created = {}
    /\ acquired = {}
    /\ failures = {}
    /\ cErr = Pending
    /\ cloned = NoClone
    /\ ctx = Background
    /\ ResolveIdle

InitScanRepo == DirectCall /\ GitOfInit

\* a call of TryAdditionalBaseRefs(repo, base), whatever repo resolves
InitResolve ==
    /\ ScanIdle
    /\ GitOfInit
    /\ last = NoUnit
    /\ wt = NoWorktree
    /\ conn = NoConn
    /\ cpc = "none"
    /\ ci = 0
    /\ defers = <<>>
    /\ disk = {}
    /\ created = {}
    /\ acquired = {}
    /\ failures = {}
    /\ cErr = Pending
    /\ cloned = NoClone
    /\ ctx = Background
    /\ tpc = "loop"
    /\ base \in Bases
    /\ refs \in [Revisions(base) -> Resolutions]
    /\ ti = 1
    /\ tOut = NoResult

Init == InitScanRepo \/ InitChunks \/ InitResolve

Next ==
    \/ ScanCommitsStart
    \/ LogClosed
    \/ RecvFile
    \/ SendFragment
    \/ ScanUnstagedStart
    \/ ScanUnstagedFile
    \/ ScanUnstagedReturn
    \/ Receive
    \/ ChunksEnter
    \/ ChunksRepo
    \/ ChunksRepoScanned
    \/ ChunksDir
    \/ ChunksDirScanned
    \/ TryRevision
    \/ Cancel

Spec == Init /\ [][Next]_vars

\* ------------------------------------- ScanRepo called by several goroutines
\* another goroutine calls ScanRepo on the Git value: nothing is acquired
OtherScanRepo ==
    /\ scans < MaxCallers
    /\ scans' = scans + 1
    /\ sem' = sem
    /\ UNCHANGED scanVars
    /\ UNCHANGED chunksVars
    /\ UNCHANGED resolveVars

\* the ScanRepo call of another goroutine returns: nothing is released
OtherScanRepoReturn ==
    /\ scans > 0
    /\ scans' = scans - 1
    /\ sem' = sem
    /\ UNCHANGED scanVars
    /\ UNCHANGED chunksVars
    /\ UNCHANGED resolveVars

\* a direct call of ScanRepo on a Git value built by NewGit with any concurrency
InitConcurrent ==
    /\ DirectCall
    /\ \E concurrency \in 1..MaxConcurrency : sem = NewWeighted(concurrency)
    /\ scans = 0

NextConcurrent ==
    \/ ScanCommitsStart
    \/ LogClosed
    \/ RecvFile
    \/ SendFragment
    \/ ScanUnstagedStart
    \/ ScanUnstagedFile
    \/ ScanUnstagedReturn
    \/ Receive
    \/ OtherScanRepo
    \/ OtherScanRepoReturn

SpecConcurrent == InitConcurrent /\ [][NextConcurrent]_vars

\* ---------------------------------------------------------------- claims
\* the unit on the channel
Unit == chunksChan[1]
\* a unit of ScanCommits is on the channel
HistoryUnit == chunksChan # <<>> /\ sentFrag # <<>>
\* the string fields of a unit's metadata
MetadataStrings(m) == {m.Commit, m.File, m.Email, m.Repository, m.Timestamp}

\* the user-info a URL is written with: in "scheme://authority/path", what
\* stands before the last "@" of the authority
WrittenUserInfo(u) ==
    LET body == IF Len(u) >= 4 /\ u[2] = ":" /\ u[3] = "/" /\ u[4] = "/"
                THEN SubSeq(u, 5, Len(u)) ELSE <<>>
        stop == IndexOf(body, "/")
        auth == IF stop = 0 THEN body ELSE SubSeq(body, 1, stop - 1)
    IN  SubSeq(auth, 1, LastIndexOf(auth, "@") - 1)
\* its password: what follows the first ":" of the user-info
WrittenPassword(u) ==
    LET ui == WrittenUserInfo(u)
    IN  IF IndexOf(ui, ":") = 0 THEN <<>> ELSE SubSeq(ui, IndexOf(ui, ":") + 1, Len(ui))
SSHShortForm(u) == Len(u) >= 2 /\ u[1] = "git" /\ u[2] = "@"

\* C1: no string of the metadata of a unit on the channel contains the
\* user-info or the password the origin URL is written with, unless the URL
\* is in the SSH short form, and the unit carries the origin URL without them
C1_NoCredentialInUnit ==
    chunksChan # <<>> =>
        LET m == Unit.SourceMetadata
            ui == WrittenUserInfo(origin.url)
            pw == WrittenPassword(origin.url)
        IN  /\ origin.found
            /\ \E f \in MetadataStrings(m) :
                  IF SSHShortForm(origin.url) THEN f = origin.url
                  ELSE /\ urlParse(f).err = NoErr
                       /\ ~urlParse(f).url.HasUser
                       /\ urlParse(f).url.Host = urlParse(origin.url).url.Host
                       /\ urlParse(f).url.Path = urlParse(origin.url).url.Path
            /\ ~SSHShortForm(origin.url) =>
                  \A f \in MetadataStrings(m) :
                      /\ ui # <<>> => ~Contains(f, ui \o <<"@">>)
                      /\ pw # <<>> => ~Contains(f, pw)

\* C1 witness: a unit is on the channel and origin is written with a password
C1_Witness ==
    /\ chunksChan # <<>>
    /\ WrittenPassword(origin.url) = <<"secret">>
    /\ <<"https", ":", "/", "/", "host", "/", "repo">> \in MetadataStrings(Unit.SourceMetadata)

\* the number of tokens t in s
RECURSIVE Count(_, _)
Count(s, t) == IF s = <<>> THEN 0 ELSE (IF Head(s) = t THEN 1 ELSE 0) + Count(Tail(s), t)
\* the added lines of a fragment, in order
AddLines(frag) == SelectSeq(frag.Lines, LAMBDA l : l.Op = OpAdd)
\* a line as the unit holds it: its newlines are spaces, a newline ends it
Rendered(l) == [i \in 1..(Len(l.Line) + 2) |->
                   IF i = 1 THEN "+"
                   ELSE IF i = Len(l.Line) + 2 THEN "\n"
                   ELSE IF l.Line[i - 1] = "\n" THEN " " ELSE l.Line[i - 1]]

\* C2: the data of a unit of ScanCommits is its fragment's Add lines, in
\* their order, each ended by a newline, and nothing of a Delete or Context line
C2_DataIsAddLines ==
    HistoryUnit =>
        LET adds == AddLines(sentFrag[1])
        IN  /\ Unit.Data = Concat([i \in 1..Len(adds) |-> Rendered(adds[i])])
            /\ Count(Unit.Data, "\n") = Len(adds)
            /\ Count(Unit.Data, "-") = 0

\* C2 witness: the unit of a fragment that has an Add line and a line that is
\* not an Add
C2_Witness ==
    /\ HistoryUnit
    /\ Len(AddLines(sentFrag[1])) < Len(sentFrag[1].Lines)
    /\ Unit.Data # <<>>

\* C2 witness of the order: the unit of a fragment with two different Add lines
C2_OrderWitness ==
    /\ HistoryUnit
    /\ Len(AddLines(sentFrag[1])) = 2
    /\ AddLines(sentFrag[1])[1] # AddLines(sentFrag[1])[2]

\* C3: a unit of ScanCommits is never empty: its fragment has an Add line
C3_NoEmptyUnit ==
    HistoryUnit => Unit.Data # <<>> /\ AddLines(sentFrag[1]) # <<>>

\* the place in the log of the commit with this sha
CommitIndex(sha) == CHOOSE k \in 1..(MaxLog + 1) : SHA(k) = sha

\* C4: with MaxDepth = N > 0 at most N records are taken into the walk and a
\* unit comes from one of the first N commits, whatever was skipped; with
\* MaxDepth = 0 every record delivered is taken into the walk
C4_DepthBound ==
    /\ opts.MaxDepth > 0 =>
          /\ depth <= opts.MaxDepth
          /\ ncommit <= opts.MaxDepth + 1
          /\ HistoryUnit => CommitIndex(Unit.SourceMetadata.Commit) <= opts.MaxDepth
          /\ spc = "frags" => file.commit <= opts.MaxDepth
    /\ opts.MaxDepth = 0 => depth = received

\* C4 witness: the walk has ended on the depth test after two records, the
\* first of which was skipped by the filter
C4_Witness ==
    /\ opts.MaxDepth = 2
    /\ opts.Filter # {}
    /\ depth = 2
    /\ received = 3
    /\ scErr = NoErr

\* C5: with BaseHash = H no unit is of commit H or of a commit after it in
\* the log, and once the log has shown commit H ScanCommits has returned nil
C5_BaseStop ==
    Len(opts.BaseHash) > 0 =>
        /\ HistoryUnit =>
              /\ Unit.SourceMetadata.Commit # opts.BaseHash
              /\ CommitIndex(Unit.SourceMetadata.Commit) < CommitIndex(opts.BaseHash)
        /\ ncommit >= CommitIndex(opts.BaseHash) => scErr = NoErr
        /\ spc = "frags" => file.commit < CommitIndex(opts.BaseHash)

\* C5 witness: the walk has stopped at H, the second commit of the log,
\* after the first commit was walked
C5_Witness ==
    /\ opts.BaseHash = SHA(2)
    /\ opts.MaxDepth = 0
    /\ ncommit = 2
    /\ depth = received
    /\ scErr = NoErr
    /\ origin.found

\* entry a of conn comes after entry b
Later(a, b) == (a[1] = "dir" /\ b[1] = "repo") \/ (a[1] = b[1] /\ a[2] > b[2])
\* the entries of conn Chunks has to clone or open
Configured ==
    {<<"repo", i>> : i \in {j \in 1..Len(conn.Repositories) : conn.Repositories[j] # <<>>}}
    \cup {<<"dir", i>> : i \in {j \in 1..Len(conn.Directories) :
                                  /\ conn.Directories[j] # <<>>
                                  /\ ~HasSuffix(conn.Directories[j], <<"git">>)}}

\* C6 as stated: when Chunks has returned after the failure of an entry,
\* every configured entry has been acquired
C6_LaterEntriesStillProcessed ==
    (cpc = "returned" /\ failures # {}) => Configured \subseteq acquired

\* C6 amended: the failure of an entry ends Chunks with an error, and no
\* later entry is acquired
C6_FailureEndsChunks ==
    failures # {} =>
        /\ cpc = "returned"
        /\ cErr # NoErr
        /\ \A e \in failures : \A a \in acquired : ~Later(a, e)

\* C6 witness: Chunks has returned on the failure of the first of two
\* repositories, the second not acquired
C6_Witness ==
    /\ cpc = "returned"
    /\ failures = {<<"repo", 1>>}
    /\ <<"repo", 2>> \in Configured \ acquired

\* C7: directories created by CloneRepo for two repositories never exist
\* at once
C7_OneEphemeralDirectory == Cardinality(created \cap disk) <= 1

\* C8: no directory created by CloneRepo exists once Chunks has returned
C8_NoEphemeralLeft == cpc = "returned" => created \cap disk = {}

\* C8 witness: Chunks has returned an error after two clones
C8_Witness ==
    /\ cpc = "returned"
    /\ Cardinality(created) = 2
    /\ cErr # NoErr

\* C9: ScanRepo returns an error whenever ScanUnstaged did, and nil only if
\* both ScanCommits and ScanUnstaged returned nil
C9_UnstagedErrorReturned ==
    srErr # Pending =>
        /\ (suErr # Pending /\ suErr # NoErr) => srErr # NoErr
        /\ srErr = NoErr => scErr = NoErr /\ suErr = NoErr

\* C9 witness: ScanUnstaged failed with "object not found" and ScanRepo
\* returned an error
C9_Witness ==
    /\ Contains(suErr, <<"object", "not", "found">>)
    /\ srErr # Pending
    /\ srErr # NoErr

\* C10: when repo.Head() fails otherwise than with reference-not-found,
\* ScanUnstaged returns an error
C10_HeadErrorFatal ==
    (suErr # Pending /\ headErr # Pending /\ headErr # NoErr
        /\ headErr # ErrReferenceNotFound) => suErr # NoErr

\* unit a was sent before unit b in the order of the walk: not from a later
\* commit of the log, and from an earlier record or an earlier fragment
Before(a, b) ==
    /\ a.commit <= b.commit
    /\ a.rec < b.rec \/ (a.rec = b.rec /\ a.frag < b.frag)
\* this step sends a unit of the history walk
SendsHistoryUnit == chunksChan = <<>> /\ chunksChan' # <<>> /\ sentFrag' # <<>>

\* C11: within a ScanRepo call a unit of the history walk is never sent after
\* a unit of the working tree, it comes after the last history unit in the
\* order commit (newest first), record, fragment, and once ScanCommits has
\* returned an error ScanUnstaged is not run and sends nothing
C11_HistoryBeforeUnstaged ==
    [][/\ SendsHistoryUnit =>
             /\ last.kind # "unstaged"
             /\ last.kind = "history" =>
                   /\ Before(last, last')
                   /\ CommitIndex(chunksChan'[1].SourceMetadata.Commit) >= last.commit
       /\ (scErr' # Pending /\ scErr' # NoErr) =>
             /\ suErr' = Pending
             /\ headErr' = Pending
             /\ spc' \in {"done", "idle"}
             /\ chunksChan' # <<>> => sentFrag' # <<>>]_vars

\* C11 witness: the unit of the second fragment of the second record, which
\* is of the second commit, is on the channel
C11_Witness ==
    /\ HistoryUnit
    /\ last = [kind |-> "history", commit |-> 2, rec |-> 2, frag |-> 2]

\* C11 witness of the error: ScanCommits has returned an error and ScanRepo
\* has returned it
C11_ErrorWitness ==
    /\ scErr # Pending
    /\ scErr # NoErr
    /\ srErr = scErr

\* C11 witness of the order of the two scans: a unit of the working tree is
\* on the channel after the walk took two records
C11_UnstagedWitness ==
    /\ chunksChan # <<>>
    /\ last.kind = "unstaged"
    /\ depth = 2

\* C12: the provenance fields of a unit carry the values of their names: for
\* a unit of the walk the new file name, the author's email, the sha and the
\* author date of its commit, the sanitized origin URL and the fragment's
\* start line; for a unit of the working tree "unstaged" as commit and email,
\* the time of the read, the sanitized origin URL and line 0
C12_FieldsCarryTheirValues ==
    chunksChan # <<>> =>
        LET m == Unit.SourceMetadata
        IN  /\ m.Repository = stripPassword(origin.url).url
            /\ m.File \in (NewNames \cup StatusNames) \ {<<>>}
            /\ IF HistoryUnit
               THEN /\ m.Email = AuthorEmail(last.commit)
                    /\ m.Commit = SHA(last.commit)
                    /\ m.Timestamp = AuthorDate(last.commit)
                    /\ m.Line = sentFrag[1].NewPosition
               ELSE /\ m.Email = Unstaged
                    /\ m.Commit = Unstaged
                    /\ m.Timestamp = TimeNow
                    /\ m.Line = 0

\* C13: CloneRepo returns a nil error only if the 'git clone' command
\* succeeded
C13_CloneFailureSurfaced ==
    cloned.err = NoErr => cloned.cloneErr = NoErr

\* C14: when conn has directories only and no credential, Chunks opens the
\* first directory it has to scan and does not return the error of the
\* missing credential
C14_DirectoriesOnlyAccepted ==
    (/\ cpc = "returned"
     /\ conn.Credential = NoCredential
     /\ conn.Repositories = <<>>
     /\ <<"dir", 1>> \in Configured) =>
        /\ <<"dir", 1>> \in acquired
        /\ cErr # ErrorsNew(ErrInvalidConnection)

\* the revision tried in the i-th place
Tried(i) == revisionPrefixes[i] \o base
\* the places of the revisions the repository does not report as not found
Answering == {i \in 1..Len(revisionPrefixes) : refs[Tried(i)] # "notfound"}

C16_NothingStartedAfterCancel ==
    ctx.canceled => acquired \subseteq ctx.started

\* the ScanRepo calls running on the Git value
InProgress ==
    scans + (IF spc \in {"ScanCommits", "range", "frags", "ScanUnstaged", "status"}
             THEN 1 ELSE 0)

\* C17: the ScanRepo calls running at once on a Git value are never more than
\* the concurrency it was built with
C17_ScansWithinConcurrency == InProgress <= sem.size

\* C18: while the walk goes on, every record the log delivered was visited,
\* and the depth counter is the number of commits visited so far
C18_DepthCountsCommits ==
    spc \in {"range", "frags"} => depth = ncommit

\* the units of the working tree sent for file name n
UnitsOf(n) == SelectSeq(wt.units, LAMBDA u : u.File = n)

\* C19: a file of the status that cannot be opened or read yields no unit and
\* no error of ScanUnstaged; every visited file that passes the filter and
\* can be read has yielded exactly one unit, holding its content; and when
\* ScanUnstaged has returned from the loop every reported file was visited
C19_UnreadableFileSkipped ==
    /\ \A r \in wt.reads :
          Len(UnitsOf(r.name)) = IF FilterPass(opts.Filter, r.name) /\ r.readable THEN 1 ELSE 0
    /\ \A i \in 1..Len(wt.units) : wt.units[i].Data = FileContent(wt.units[i].File)
    /\ (wt.reads # {} /\ suErr # Pending) =>
          /\ suErr = NoErr
          /\ {r.name : r \in wt.reads} = wt.reported

\* C19 witness: ScanUnstaged has returned nil after a.txt could not be read
\* and x.bin has yielded its unit
C19_Witness ==
    /\ suErr = NoErr
    /\ wt.reads = {[name |-> <<"a.txt">>, readable |-> FALSE],
                   [name |-> <<"x.bin">>, readable |-> TRUE]}
    /\ wt.units = <<[File |-> <<"x.bin">>, Data |-> FileContent(<<"x.bin">>)]>>

\* the origin remote of the scanned repository cannot be resolved, or its URL
\* cannot be sanitized
OriginUnresolved ==
    \/ ~origin.found
    \/ ~SSHShortForm(origin.url) /\ urlParse(origin.url).err # NoErr

\* C20: for a repository whose origin cannot be resolved or sanitized no unit
\* is sent by the walk or by the scan of the working tree, ScanUnstaged returns
\* an error if it is reached, and ScanRepo does not return nil; a unit that is
\* sent is of a repository whose origin is resolved
C20_NoUnitWithoutOrigin ==
    /\ OriginUnresolved =>
          /\ chunksChan = <<>>
          /\ last = NoUnit
          /\ wt = NoWorktree
          /\ spc \notin {"frags", "status"}
          /\ suErr # NoErr
          /\ srErr # NoErr
          /\ srErr # Pending => (scErr # NoErr /\ srErr = scErr) \/ (suErr # Pending)
    /\ chunksChan # <<>> => ~OriginUnresolved

\* C20 witness: origin is not found, the walk has ended without a record that
\* passes the filter, ScanUnstaged has failed and ScanRepo returned an error
C20_Witness ==
    /\ ~origin.found
    /\ received > 0
    /\ scErr = NoErr
    /\ suErr # Pending
    /\ srErr # Pending
    /\ srErr # NoErr

\* C20 witness of the walk: the URL of origin cannot be sanitized and
\* ScanCommits has returned an error at the first record that passes
C20_WalkWitness ==
    /\ origin.found
    /\ OriginUnresolved
    /\ depth > 0
    /\ scErr # Pending
    /\ scErr # NoErr

====
